---- MODULE Spec2Model ----
(***************************************************************************)
(* Streams (src/src/Streams.cpp): the polyphonic orchestration of sixteen  *)
(* StreamsEngine voices: settings broadcast, polyphony growth, the         *)
(* per-cycle processing loop, the brightness reduction and persistence.    *)
(* The StreamsEngine class itself (Streams/streams.hpp) is modelled from   *)
(* its contract in the specification.                                      *)
(***************************************************************************)
EXTENDS Integers, FiniteSets, Sequences, TLC

\* ------------------------------------------------------------ constants

kNumEngines == 16
NUM_LIGHTS == 16
kNumChannelModes == 10
kNumMonitorModes == 4
\* Rack ports carry 0..16 channels; 0 is an unconnected port.
PORT_MAX_CHANNELS == 16

Voices == 0 .. (kNumEngines - 1)
Lights == 0 .. (NUM_LIGHTS - 1)
Channels == {0, 1}

\* enum LightIds: the first and the last indicator
CH1_LIGHT_1_G == 0
CH2_LIGHT_4_R == 15

\* ProcessorFunction and MonitorMode enumerators, in declaration order.
PROCESSOR_FUNCTION_ENVELOPE == 0
PROCESSOR_FUNCTION_VACTROL == 1
PROCESSOR_FUNCTION_FOLLOWER == 2
PROCESSOR_FUNCTION_COMPRESSOR == 3
PROCESSOR_FUNCTION_FILTER_CONTROLLER == 4
PROCESSOR_FUNCTION_LORENZ_GENERATOR == 5
MONITOR_MODE_EXCITE_IN == 0
MONITOR_MODE_VCA_CV == 1
MONITOR_MODE_AUDIO_IN == 2
MONITOR_MODE_OUTPUT == 3

\* ------------------------------------------------------------ bounds

\* Largest channel count the host reports in the voice-level specification.
MaxVoices == 2
\* Largest channel count the host reports in the settings specification.
MaxPoly == 4
\* Largest field value of the sample persisted files.
MaxJson == 2

\* ------------------------------------------------------------ variables

VARIABLES
    ui_settings,          \* engine_[c].ui_settings()
    dsp,                  \* engine_[c]: its DSP state
    brightness_,          \* brightness_[i][c]
    prev_num_channels_,
    lights,               \* lights[i].getBrightness()
    out_channels,         \* outputs[..].getChannels(), both ports
    fault,                \* an index outside engine_ has been used
    last_op,              \* the operation that produced this state
    threads               \* where a menu action and a cycle stand when they overlap

\* ------------------------------------------------------------ helpers

Max(a, b) == IF a >= b THEN a ELSE b
Min(a, b) == IF a <= b THEN a ELSE b

\* ------------------------------------------------------------ mode tables

ChannelMode(f, a, l) == [function |-> f, alternate |-> a, label |-> l]

\* Mutant: entry 4 repeats the pair of entry 0.
kChannelModeTable_Dup ==
    [i \in 0 .. (kNumChannelModes - 1) |->
        CASE i <= 3 -> ChannelMode(i, 0, "plain")
          [] i = 4 -> ChannelMode(PROCESSOR_FUNCTION_ENVELOPE, 0, "AR envelope")
          [] i \in 5 .. 7 -> ChannelMode(i - 4, 1, "alternate")
          [] i = 8 -> ChannelMode(PROCESSOR_FUNCTION_FILTER_CONTROLLER, 1,
                                  "Direct VCF controller")
          [] i = 9 -> ChannelMode(PROCESSOR_FUNCTION_LORENZ_GENERATOR, 0,
                                  "Lorenz generator")]

kChannelModeTable ==
    [i \in 0 .. (kNumChannelModes - 1) |->
        CASE i = 0 -> ChannelMode(PROCESSOR_FUNCTION_ENVELOPE, 0, "Envelope")
          [] i = 1 -> ChannelMode(PROCESSOR_FUNCTION_VACTROL, 0, "Vactrol")
          [] i = 2 -> ChannelMode(PROCESSOR_FUNCTION_FOLLOWER, 0, "Follower")
          [] i = 3 -> ChannelMode(PROCESSOR_FUNCTION_COMPRESSOR, 0, "Compressor")
          [] i = 4 -> ChannelMode(PROCESSOR_FUNCTION_ENVELOPE, 1, "AR envelope")
          [] i = 5 -> ChannelMode(PROCESSOR_FUNCTION_VACTROL, 1, "Plucked vactrol")
          [] i = 6 -> ChannelMode(PROCESSOR_FUNCTION_FOLLOWER, 1, "Cutoff controller")
          [] i = 7 -> ChannelMode(PROCESSOR_FUNCTION_COMPRESSOR, 1, "Slow compressor")
          [] i = 8 -> ChannelMode(PROCESSOR_FUNCTION_FILTER_CONTROLLER, 1,
                                  "Direct VCF controller")
          [] i = 9 -> ChannelMode(PROCESSOR_FUNCTION_LORENZ_GENERATOR, 0,
                                  "Lorenz generator")]

kMonitorModeTable ==
    [i \in 0 .. (kNumMonitorModes - 1) |->
        CASE i = 0 -> [mode |-> MONITOR_MODE_EXCITE_IN, label |-> "Excite"]
          [] i = 1 -> [mode |-> MONITOR_MODE_VCA_CV, label |-> "Level"]
          [] i = 2 -> [mode |-> MONITOR_MODE_AUDIO_IN, label |-> "In"]
          [] i = 3 -> [mode |-> MONITOR_MODE_OUTPUT, label |-> "Out"]]

\* ------------------------------------------------------------ settings

\* streams::UiSettings settings = {};
ZeroSettings ==
    [function |-> [ch \in Channels |-> 0],
     alternate |-> [ch \in Channels |-> 0],
     monitor_mode |-> 0,
     linked |-> 0]

\* settings.linked ^= 1 on a 0/1 flag
Xor1(b) == IF b = 1 THEN 0 ELSE 1

\* One engine writes one Settings value (UiSettings is copied whole).
ApplySettings(us, c, settings) == [us EXCEPT ![c] = settings]

\* Mutant: the broadcast stops at the active voices.
ApplyAll_ActiveOnly(us, settings) ==
    [c \in Voices |-> IF c < prev_num_channels_ THEN settings ELSE us[c]]

\* for (int c = 0; c < kNumEngines; c++) engine_[c].ApplySettings(settings);
ApplyAll(us, settings) == [c \in Voices |-> settings]

\* ------------------------------------------------------------ persistence

JsonKeys ==
    {"function1", "function2", "alternate1", "alternate2", "monitor_mode", "linked"}

\* Mutant: the two function keys are written crosswise.
DataToJson_Swapped(settings) ==
    [function1 |-> settings.function[1],
     function2 |-> settings.function[0],
     alternate1 |-> settings.alternate[0],
     alternate2 |-> settings.alternate[1],
     monitor_mode |-> settings.monitor_mode,
     linked |-> settings.linked]

\* dataToJson(): six integer fields of engine_[0].ui_settings()
DataToJson(settings) ==
    [function1 |-> settings.function[0],
     function2 |-> settings.function[1],
     alternate1 |-> settings.alternate[0],
     alternate2 |-> settings.alternate[1],
     monitor_mode |-> settings.monitor_mode,
     linked |-> settings.linked]

\* json_object_get: a key of the object, or absent (NULL)
HasKey(root_j, key) == key \in DOMAIN root_j

\* if (x_j) settings.x = json_integer_value(x_j);
JsonField(root_j, key, default) == IF HasKey(root_j, key) THEN root_j[key] ELSE default

\* Mutant: an absent key keeps the value voice 0 holds.
SettingsFromJson_Retain(root_j) ==
    [function |-> [ch \in Channels |->
                      IF ch = 0 THEN JsonField(root_j, "function1", ui_settings[0].function[0])
                                ELSE JsonField(root_j, "function2", ui_settings[0].function[1])],
     alternate |-> [ch \in Channels |->
                      IF ch = 0 THEN JsonField(root_j, "alternate1", ui_settings[0].alternate[0])
                                ELSE JsonField(root_j, "alternate2", ui_settings[0].alternate[1])],
     monitor_mode |-> JsonField(root_j, "monitor_mode", ui_settings[0].monitor_mode),
     linked |-> JsonField(root_j, "linked", ui_settings[0].linked)]

\* The Settings dataFromJson builds before it applies them.
SettingsFromJson(root_j) ==
    [function |-> [ch \in Channels |->
                      IF ch = 0 THEN JsonField(root_j, "function1", ZeroSettings.function[0])
                                ELSE JsonField(root_j, "function2", ZeroSettings.function[1])],
     alternate |-> [ch \in Channels |->
                      IF ch = 0 THEN JsonField(root_j, "alternate1", ZeroSettings.alternate[0])
                                ELSE JsonField(root_j, "alternate2", ZeroSettings.alternate[1])],
     monitor_mode |-> JsonField(root_j, "monitor_mode", ZeroSettings.monitor_mode),
     linked |-> JsonField(root_j, "linked", ZeroSettings.linked)]

\* A persisted object with only the keys in D (a partial or legacy file).
Restrict(root_j, D) == [k \in D |-> root_j[k]]

\* Sample Settings whose every field holds v, cut to the field's range.
UniformSettings(v) ==
    [function |-> [ch \in Channels |-> Min(v, PROCESSOR_FUNCTION_LORENZ_GENERATOR)],
     alternate |-> [ch \in Channels |-> Min(v, 1)],
     monitor_mode |-> Min(v, MONITOR_MODE_OUTPUT),
     linked |-> Min(v, 1)]

\* The persisted objects offered to dataFromJson: what dataToJson exports now
\* and the sample files, each with any subset of its keys.
JsonFiles(current) ==
    {Restrict(DataToJson(s), D) :
        s \in {current} \cup {UniformSettings(v) : v \in 1 .. MaxJson},
        D \in SUBSET JsonKeys}

\* ------------------------------------------------------------ engine

\* Abstract continuous DSP state of one engine: a level that rises with the
\* input and saturates at DspMax.
DspMax == 1
DspValues == 0 .. DspMax
Samples == {0, 1}

\* StreamsEngine::Reset(): default Settings and DSP state.
ResetSettings == ZeroSettings
ResetDsp == 0

LedIndex == 0 .. 3
NoLeds == [k \in LedIndex |-> 0]

\* The frame is declared without an initialiser; garbage stands for what its
\* lights_updated flag holds before the first engine writes it.
UninitFrame(garbage) ==
    [lights_updated |-> garbage,
     ch1_led_green |-> NoLeds, ch1_led_red |-> NoLeds,
     ch2_led_green |-> NoLeds, ch2_led_red |-> NoLeds,
     ch1_signal_out |-> 0, ch2_signal_out |-> 0]

\* StreamsEngine::Process(frame): the state advances with the input sample,
\* the outputs are written, and the LED fields and the flag report a change
\* of the visual state.
EngineStep(d, x) == Min(d + x, DspMax)

EngineProcess(d, frame, x, changed) ==
    LET d2 == EngineStep(d, x) IN
    [dsp |-> d2,
     frame |->
        IF changed
        THEN [lights_updated |-> TRUE,
              ch1_led_green |-> [k \in LedIndex |-> IF k = 0 THEN d2 ELSE 0],
              ch1_led_red |-> NoLeds,
              ch2_led_green |-> NoLeds,
              ch2_led_red |-> [k \in LedIndex |-> IF k = 3 THEN d2 ELSE 0],
              ch1_signal_out |-> d2, ch2_signal_out |-> d2]
        ELSE [frame EXCEPT !.lights_updated = FALSE,
                           !.ch1_signal_out = d2, !.ch2_signal_out = d2]]

\* ------------------------------------------------------------ state

vars == <<ui_settings, dsp, brightness_, prev_num_channels_, lights,
          out_channels, fault, last_op, threads>>

\* What the settings mutators leave alone.
others == <<dsp, brightness_, prev_num_channels_, lights, out_channels, fault, threads>>

\* The two threads of the host when a handler is not taken as one step. ui:
\* a menu action between its ApplySettings calls (c is the next voice to
\* write). audio: process() between its voices (c is the next voice to
\* process), with the locals of the cycle; seen is the set of Settings values
\* the engines processed in the cycle have read.
IdleThreads ==
    [ui |-> [pc |-> "idle", c |-> 0, settings |-> ZeroSettings,
             name |-> "none", args |-> <<>>],
     audio |-> [pc |-> "idle", c |-> 0, num_channels |-> 0, prev |-> 1,
                synced |-> {}, frame |-> UninitFrame(FALSE),
                lights_updated |-> FALSE, order |-> <<>>, seen |-> {}]]

\* name and args: the operation and its arguments (for process: the previous
\* count and the count of the cycle); synced: the voices process() synced from
\* voice 0; changed: the voices whose engine reported a change of its visual
\* state; order: the voices in the order the voice loop handled them. For
\* ToggleLink args holds the Settings of the voices before the call and
\* whether the call directly follows another ToggleLink.
Op(name, args, synced, changed) ==
    [name |-> name, args |-> args, synced |-> synced, changed |-> changed,
     order |-> <<>>]

\* Streams(): config(...) then onReset()
Init ==
    /\ ui_settings = [c \in Voices |-> ResetSettings]
    /\ dsp = [c \in Voices |-> ResetDsp]
    /\ brightness_ = [i \in Lights |-> [c \in Voices |-> 0]]
    /\ prev_num_channels_ = 1
    /\ lights = [i \in Lights |-> 0]
    /\ out_channels = 0
    /\ fault = FALSE
    /\ last_op = Op("Streams", <<>>, {}, {})
    /\ threads = IdleThreads

\* Mutant: the reset leaves the brightness table as it is.
onReset_KeepBrightness ==
    /\ ~fault
    /\ ui_settings' = [c \in Voices |-> ResetSettings]
    /\ dsp' = [c \in Voices |-> ResetDsp]
    /\ prev_num_channels_' = 1
    /\ last_op' = Op("onReset", <<>>, {}, {})
    /\ UNCHANGED <<brightness_, lights, out_channels, fault, threads>>

\* onReset(): every engine reset, the brightness table zeroed.
onReset ==
    /\ ~fault
    /\ ui_settings' = [c \in Voices |-> ResetSettings]
    /\ dsp' = [c \in Voices |-> ResetDsp]
    /\ brightness_' = [i \in Lights |-> [c \in Voices |-> 0]]
    /\ prev_num_channels_' = 1
    /\ last_op' = Op("onReset", <<>>, {}, {})
    /\ UNCHANGED <<lights, out_channels, fault, threads>>

\* ------------------------------------------------------------ mutators

\* Mutant: the flipped flag is put into default Settings instead of voice 0's.
ToggleLink_FromDefaults ==
    /\ ~fault
    /\ \E settings \in {[ZeroSettings EXCEPT !.linked = Xor1(ui_settings[0].linked)]} :
          ui_settings' = ApplyAll(ui_settings, settings)
    /\ last_op' = Op("ToggleLink", <<ui_settings, last_op.name = "ToggleLink">>, {}, {})
    /\ UNCHANGED others

\* Mutant: the link flag is set instead of flipped.
ToggleLink_SetOnly ==
    /\ ~fault
    /\ \E settings \in {[ui_settings[0] EXCEPT !.linked = 1]} :
          ui_settings' = ApplyAll(ui_settings, settings)
    /\ last_op' = Op("ToggleLink", <<ui_settings, last_op.name = "ToggleLink">>, {}, {})
    /\ UNCHANGED others

ToggleLink ==
    /\ ~fault
    /\ \E settings \in {[ui_settings[0] EXCEPT !.linked = Xor1(@)]} :
          ui_settings' = ApplyAll(ui_settings, settings)
    /\ last_op' = Op("ToggleLink", <<ui_settings, last_op.name = "ToggleLink">>, {}, {})
    /\ UNCHANGED others

SetChannelMode_ActiveOnly(channel, mode_id) ==
    /\ ~fault
    /\ \E settings \in
            {[ui_settings[0] EXCEPT
                !.function[channel] = kChannelModeTable[mode_id].function,
                !.alternate[channel] = kChannelModeTable[mode_id].alternate]} :
          ui_settings' = [c \in Voices |->
                            IF c < prev_num_channels_ THEN settings ELSE ui_settings[c]]
    /\ last_op' = Op("SetChannelMode", <<channel, mode_id>>, {}, {})
    /\ UNCHANGED others

SetChannelMode(channel, mode_id) ==
    /\ ~fault
    /\ \E settings \in
            {[ui_settings[0] EXCEPT
                !.function[channel] = kChannelModeTable[mode_id].function,
                !.alternate[channel] = kChannelModeTable[mode_id].alternate]} :
          ui_settings' = ApplyAll(ui_settings, settings)
    /\ last_op' = Op("SetChannelMode", <<channel, mode_id>>, {}, {})
    /\ UNCHANGED others

\* Mutant: the new Settings start from the defaults instead of voice 0.
SetMonitorMode_FromDefaults(mode_id) ==
    /\ ~fault
    /\ \E settings \in
            {[ZeroSettings EXCEPT !.monitor_mode = kMonitorModeTable[mode_id].mode]} :
          ui_settings' = ApplyAll(ui_settings, settings)
    /\ last_op' = Op("SetMonitorMode", <<mode_id>>, {}, {})
    /\ UNCHANGED others

SetMonitorMode(mode_id) ==
    /\ ~fault
    /\ \E settings \in
            {[ui_settings[0] EXCEPT !.monitor_mode = kMonitorModeTable[mode_id].mode]} :
          ui_settings' = ApplyAll(ui_settings, settings)
    /\ last_op' = Op("SetMonitorMode", <<mode_id>>, {}, {})
    /\ UNCHANGED others

dataFromJson(root_j) ==
    /\ ~fault
    /\ \E settings \in {SettingsFromJson(root_j)} :
          ui_settings' = ApplyAll(ui_settings, settings)
    /\ last_op' = Op("dataFromJson", root_j, {}, {})
    /\ UNCHANGED others

\* The query functions of the module.
function(channel) == ui_settings[0].function[channel]
alternate(channel) == ui_settings[0].alternate[channel]
linked == ui_settings[0].linked
monitor_mode == ui_settings[0].monitor_mode

\* CHECKMARK(function(channel) == table[i].function && alternate(channel) == table[i].alternate)
Checked(channel, i) ==
    /\ function(channel) = kChannelModeTable[i].function
    /\ alternate(channel) = kChannelModeTable[i].alternate

\* ------------------------------------------------------------ process

\* Mutant: the first newly activated voice is skipped.
SyncRange_SkipFirst(prev, num_channels) ==
    IF num_channels > prev THEN (prev + 1) .. (num_channels - 1) ELSE {}

\* Mutant: growth syncs nothing.
SyncRange_Never(prev, num_channels) == {}

\* Mutant: every cycle syncs all voices above voice 0.
SyncRange_All(prev, num_channels) == 1 .. (num_channels - 1)

\* Mutant: growth by a single voice is not noticed.
SyncRange_OffByOne(prev, num_channels) ==
    IF num_channels > prev + 1 THEN prev .. (num_channels - 1) ELSE {}

\* if (num_channels > prev_num_channels_)
\*     for (int c = prev_num_channels_; c < num_channels; c++) ...
SyncRange(prev, num_channels) ==
    IF num_channels > prev THEN prev .. (num_channels - 1) ELSE {}

\* engine_[c].SyncUI(engine_[0]): the Settings and the reproducible state of
\* voice 0 are copied into voice c.
SyncUI(state, synced) == [c \in Voices |-> IF c \in synced THEN state[0] ELSE state[c]]

\* The frame field that line 326..341 stores in brightness_[i][c].
FrameLed(frame, i) ==
    LET k == (i % 8) \div 2 IN
    IF i < 8
    THEN (IF i % 2 = 0 THEN frame.ch1_led_green[k] ELSE frame.ch1_led_red[k])
    ELSE (IF i % 2 = 0 THEN frame.ch2_led_green[k] ELSE frame.ch2_led_red[k])

\* Mutant: the LED fields are stored whether or not the frame reports a change.
StoreLeds_Always(table, c, frame) ==
    [i \in Lights |-> [table[i] EXCEPT ![c] = FrameLed(frame, i)]]

\* if (frame.lights_updated) { brightness_[..][c] = frame....; }
StoreLeds(table, c, frame) ==
    IF frame.lights_updated
    THEN [i \in Lights |-> [table[i] EXCEPT ![c] = FrameLed(frame, i)]]
    ELSE table

\* Mutant: the LED fields are stored once any voice of the cycle has reported
\* a change.
ProcessVoice_StoreOnAccumulated(c, st, in) ==
    CHOOSE st2 \in
        {[dsp |-> [st.dsp EXCEPT ![c] = r.dsp],
          brightness |->
             StoreLeds(st.brightness, c,
                       [r.frame EXCEPT !.lights_updated = @ \/ st.lights_updated]),
          frame |-> r.frame,
          lights_updated |-> (st.lights_updated \/ r.frame.lights_updated),
          order |-> Append(st.order, c)] :
            r \in {EngineProcess(st.dsp[c], st.frame, in[c].sample, in[c].changed)}} :
        TRUE

\* The loop body for voice c: engine_[c].Process(frame), the LED fields stored
\* when the frame reports a change, lights_updated |= frame.lights_updated.
ProcessVoice(c, st, in) ==
    CHOOSE st2 \in
        {[dsp |-> [st.dsp EXCEPT ![c] = r.dsp],
          brightness |-> StoreLeds(st.brightness, c, r.frame),
          frame |-> r.frame,
          lights_updated |-> (st.lights_updated \/ r.frame.lights_updated),
          order |-> Append(st.order, c)] :
            r \in {EngineProcess(st.dsp[c], st.frame, in[c].sample, in[c].changed)}} :
        TRUE

\* Mutant: the voice loop runs from the last active voice down to voice 0.
RECURSIVE ProcessLoop_Descending(_, _, _, _)
ProcessLoop_Descending(c, num_channels, st, in) ==
    IF c >= num_channels THEN st
    ELSE IF (num_channels - 1 - c) \notin Voices
         THEN ProcessLoop_Descending(c + 1, num_channels, st, in)
    ELSE CHOOSE res \in
            {ProcessLoop_Descending(c + 1, num_channels, st2, in) :
                st2 \in {ProcessVoice(num_channels - 1 - c, st, in)}} : TRUE

\* for (int c = 0; c < num_channels; c++): voice c, then the voices after it.
RECURSIVE ProcessLoop(_, _, _, _)
ProcessLoop(c, num_channels, st, in) ==
    IF c >= num_channels THEN st
    ELSE IF c \notin Voices THEN ProcessLoop(c + 1, num_channels, st, in)
    ELSE CHOOSE res \in
            {ProcessLoop(c + 1, num_channels, st2, in) :
                st2 \in {ProcessVoice(c, st, in)}} : TRUE

\* Mutant: the maximum ranges over the engine capacity, not the active voices.
MaxBrightness_AllVoices(row, c, num_channels, brightness) ==
    CHOOSE m \in {row[v] : v \in Voices} : \A v \in Voices : row[v] <= m

\* Mutant: the last active voice wins instead of the maximum.
MaxBrightness_Last(row, c, num_channels, brightness) ==
    IF num_channels >= 1 THEN row[Min(num_channels, kNumEngines) - 1] ELSE brightness

\* float brightness = 0.f; for c < num_channels: brightness = max(row[c], brightness)
RECURSIVE MaxBrightness(_, _, _, _)
MaxBrightness(row, c, num_channels, brightness) ==
    IF c >= num_channels \/ c \notin Voices THEN brightness
    ELSE MaxBrightness(row, c + 1, num_channels, Max(row[c], brightness))

\* std::max(std::max(ch1, ch2), 1)
NumChannels(c1, c2) == Max(Max(c1, c2), 1)

\* Mutant: the previous count is updated only when the count grows.
process_PrevOnGrowth(c1, c2, in, garbage) ==
    /\ ~fault
    /\ \E num_channels \in {NumChannels(c1, c2)} :
       \E synced \in {SyncRange(prev_num_channels_, num_channels)} :
       \E st \in {ProcessLoop(0, num_channels,
                     [dsp |-> SyncUI(dsp, synced),
                      brightness |-> brightness_,
                      frame |-> UninitFrame(garbage),
                      lights_updated |-> FALSE,
                      order |-> <<>>],
                     in)} :
          /\ ui_settings' = SyncUI(ui_settings, synced)
          /\ prev_num_channels_' = Max(prev_num_channels_, num_channels)
          /\ dsp' = st.dsp
          /\ brightness_' = st.brightness
          /\ out_channels' = num_channels
          /\ lights' = IF st.lights_updated
                       THEN [i \in Lights |->
                                MaxBrightness(st.brightness[i], 0, num_channels, 0)]
                       ELSE lights
          /\ fault' = (num_channels > kNumEngines)
          /\ last_op' = [Op("process", <<prev_num_channels_, num_channels>>, synced,
                             {c \in DOMAIN in \cap Voices : in[c].changed})
                            EXCEPT !.order = st.order]
          /\ UNCHANGED threads

process(c1, c2, in, garbage) ==
    /\ ~fault
    /\ \E num_channels \in {NumChannels(c1, c2)} :
       \E synced \in {SyncRange(prev_num_channels_, num_channels)} :
       \E st \in {ProcessLoop(0, num_channels,
                     [dsp |-> SyncUI(dsp, synced),
                      brightness |-> brightness_,
                      frame |-> UninitFrame(garbage),
                      lights_updated |-> FALSE,
                      order |-> <<>>],
                     in)} :
          /\ ui_settings' = SyncUI(ui_settings, synced)
          /\ prev_num_channels_' = num_channels
          /\ dsp' = st.dsp
          /\ brightness_' = st.brightness
          /\ out_channels' = num_channels
          /\ lights' = IF st.lights_updated
                       THEN [i \in Lights |->
                                MaxBrightness(st.brightness[i], 0, num_channels, 0)]
                       ELSE lights
          /\ fault' = (num_channels > kNumEngines)
          /\ last_op' = [Op("process", <<prev_num_channels_, num_channels>>, synced,
                             {c \in DOMAIN in \cap Voices : in[c].changed})
                            EXCEPT !.order = st.order]
          /\ UNCHANGED threads

\* Host input for num_channels voices: a sample and whether the engine's
\* visual state changes, per voice.
VoiceInputs(num_channels) ==
    [0 .. (num_channels - 1) -> [sample : Samples, changed : BOOLEAN]]

Silent(num_channels) ==
    [c \in 0 .. (num_channels - 1) |-> [sample |-> 0, changed |-> FALSE]]

\* ------------------------------------------------------------ specifications

\* Voice level: cycles with up to MaxVoices channels on the first signal input
\* and arbitrary samples.
Cycle ==
    \E c1 \in 0 .. MaxVoices, c2 \in {0}, garbage \in BOOLEAN :
        \E in \in VoiceInputs(NumChannels(c1, c2)) : process(c1, c2, in, garbage)

Next == Cycle \/ ToggleLink \/ onReset

Spec == Init /\ [][Next]_vars

\* Settings level: every menu action and a save followed by a load, between
\* silent cycles of up to MaxVoices channels.
QuietCycle ==
    \E c1 \in 0 .. MaxVoices, c2 \in {0} :
        process(c1, c2, Silent(NumChannels(c1, c2)), FALSE)

MenuChannelMode ==
    \E channel \in Channels, mode_id \in 0 .. (kNumChannelModes - 1) :
        SetChannelMode(channel, mode_id)

MenuMonitorMode == \E mode_id \in 0 .. (kNumMonitorModes - 1) : SetMonitorMode(mode_id)

\* The patch is saved and loaded back.
SaveAndLoad == dataFromJson(DataToJson(ui_settings[0]))

NextSettings ==
    QuietCycle \/ ToggleLink \/ MenuChannelMode \/ MenuMonitorMode \/ SaveAndLoad
        \/ onReset

SpecSettings == Init /\ [][NextSettings]_vars

\* Scenario level: the menu of channel 1, the meter menu and the link item,
\* between silent cycles of up to MaxPoly channels.
SilentCycle ==
    \E c1 \in 0 .. MaxPoly, c2 \in {0} :
        process(c1, c2, Silent(NumChannels(c1, c2)), FALSE)

FrontChannelMode ==
    \E mode_id \in 0 .. (kNumChannelModes - 1) : SetChannelMode(0, mode_id)

NextScenario ==
    SilentCycle \/ ToggleLink \/ FrontChannelMode \/ MenuMonitorMode \/ onReset

SpecScenario == Init /\ [][NextScenario]_vars

\* Thread level: the menu runs on the UI thread of the host and process() on
\* its audio thread; the code takes no lock, so a menu action is interleaved
\* with a cycle between any two engine calls.

\* The settings the handler computes from voice 0 before its loop.
T_BeginApply(name, args, settings) ==
    /\ ~fault
    /\ threads.ui.pc = "idle"
    /\ threads' = [threads EXCEPT !.ui = [pc |-> "apply", c |-> 0, settings |-> settings,
                                          name |-> name, args |-> args]]
    /\ UNCHANGED <<ui_settings, dsp, brightness_, prev_num_channels_, lights,
                   out_channels, fault, last_op>>

T_ToggleLink ==
    T_BeginApply("ToggleLink", <<ui_settings, last_op.name = "ToggleLink">>,
                 [ui_settings[0] EXCEPT !.linked = Xor1(@)])

T_SetChannelMode(channel, mode_id) ==
    T_BeginApply("SetChannelMode", <<channel, mode_id>>,
                 [ui_settings[0] EXCEPT
                    !.function[channel] = kChannelModeTable[mode_id].function,
                    !.alternate[channel] = kChannelModeTable[mode_id].alternate])

\* One iteration of the handler's loop: engine_[c].ApplySettings(settings).
T_ApplyStep ==
    /\ threads.ui.pc = "apply"
    /\ ui_settings' = ApplySettings(ui_settings, threads.ui.c, threads.ui.settings)
    /\ IF threads.ui.c + 1 < kNumEngines
       THEN /\ threads' = [threads EXCEPT !.ui.c = @ + 1]
            /\ UNCHANGED last_op
       ELSE /\ threads' = [threads EXCEPT !.ui.pc = "idle", !.ui.c = 0]
            /\ last_op' = Op(threads.ui.name, threads.ui.args, {}, {})
    /\ UNCHANGED <<dsp, brightness_, prev_num_channels_, lights, out_channels, fault>>

\* process() up to its voice loop: the count, the sync of new voices, the
\* previous count.
T_ProcessBegin(c1, c2) ==
    /\ ~fault
    /\ threads.audio.pc = "idle"
    /\ \E num_channels \in {NumChannels(c1, c2)} :
       \E synced \in {SyncRange(prev_num_channels_, num_channels)} :
          /\ ui_settings' = SyncUI(ui_settings, synced)
          /\ dsp' = SyncUI(dsp, synced)
          /\ prev_num_channels_' = num_channels
          /\ threads' = [threads EXCEPT !.audio =
                            [pc |-> "voices", c |-> 0, num_channels |-> num_channels,
                             prev |-> prev_num_channels_, synced |-> synced,
                             frame |-> UninitFrame(FALSE), lights_updated |-> FALSE,
                             order |-> <<>>, seen |-> {}]]
    /\ UNCHANGED <<brightness_, lights, out_channels, fault, last_op>>

\* One iteration of the voice loop, on a silent input.
T_ProcessVoice ==
    /\ threads.audio.pc = "voices"
    /\ threads.audio.c < threads.audio.num_channels
    /\ \E c \in {threads.audio.c} :
       \E st \in {ProcessVoice(c, [dsp |-> dsp, brightness |-> brightness_,
                                   frame |-> threads.audio.frame,
                                   lights_updated |-> threads.audio.lights_updated,
                                   order |-> threads.audio.order],
                               Silent(threads.audio.num_channels))} :
          /\ dsp' = st.dsp
          /\ brightness_' = st.brightness
          /\ threads' = [threads EXCEPT !.audio.c = c + 1,
                                        !.audio.frame = st.frame,
                                        !.audio.lights_updated = st.lights_updated,
                                        !.audio.order = st.order,
                                        !.audio.seen = @ \cup {ui_settings[c]}]
    /\ UNCHANGED <<ui_settings, prev_num_channels_, lights, out_channels, fault, last_op>>

\* process() after its voice loop: the output channel counts and the lights.
T_ProcessEnd ==
    /\ threads.audio.pc = "voices"
    /\ threads.audio.c = threads.audio.num_channels
    /\ out_channels' = threads.audio.num_channels
    /\ lights' = IF threads.audio.lights_updated
                 THEN [i \in Lights |->
                          MaxBrightness(brightness_[i], 0, threads.audio.num_channels, 0)]
                 ELSE lights
    /\ threads' = [threads EXCEPT !.audio.pc = "idle"]
    /\ last_op' = [Op("process", <<threads.audio.prev, threads.audio.num_channels>>,
                       threads.audio.synced, {})
                      EXCEPT !.order = threads.audio.order]
    /\ UNCHANGED <<ui_settings, dsp, brightness_, prev_num_channels_, fault>>

T_Menu ==
    T_ToggleLink \/ \E mode_id \in {8, 9} : T_SetChannelMode(0, mode_id)

T_Cycle == \E c1 \in 1 .. MaxVoices : T_ProcessBegin(c1, 0)

NextThreads == T_Menu \/ T_ApplyStep \/ T_Cycle \/ T_ProcessVoice \/ T_ProcessEnd

SpecThreads == Init /\ [][NextThreads]_vars

\* Persistence level: partial and legacy files loaded into any state.
LoadJson == \E root_j \in JsonFiles(ui_settings[0]) : dataFromJson(root_j)

MonoCycle == \E c1 \in 0 .. 1, c2 \in 0 .. 1 : process(c1, c2, Silent(1), FALSE)

NextJson == LoadJson \/ ToggleLink \/ MonoCycle \/ onReset

SpecJson == Init /\ [][NextJson]_vars

\* Polyphony level: every channel count an int can report on the two inputs,
\* one below and one above the range of a port included.
ExtremeCounts == (0 - 1) .. (PORT_MAX_CHANNELS + 1)

HostCycle ==
    \E c1 \in ExtremeCounts, c2 \in ExtremeCounts :
        process(c1, c2, Silent(NumChannels(c1, c2)), FALSE)

NextPoly == HostCycle \/ ToggleLink \/ onReset

SpecPoly == Init /\ [][NextPoly]_vars

\* ------------------------------------------------------------ claims

AllVoicesAgree == \A c \in Voices : ui_settings[c] = ui_settings[0]

Mutators == {"ToggleLink", "SetChannelMode", "SetMonitorMode", "dataFromJson"}

\* C1: right after ToggleLink, SetChannelMode, SetMonitorMode or dataFromJson
\* returns, each of the sixteen voices, active or not, holds the Settings of
\* voice 0.
C1_BroadcastConsistency == last_op.name \in Mutators => AllVoicesAgree

\* C1 witness: a menu action has run while only two voices are active, and the
\* last, inactive voice holds the new mode.
C1_Witness ==
    /\ last_op.name = "SetChannelMode"
    /\ prev_num_channels_ = 2
    /\ ui_settings[kNumEngines - 1].function[1] = PROCESSOR_FUNCTION_LORENZ_GENERATOR
    /\ ui_settings[kNumEngines - 1].linked = 1

\* C3: a cycle that grows the active count from k to k' <= 16 syncs exactly
\* the voices k..k'-1 from voice 0, and each of them then holds voice 0's
\* Settings.
C3_GrowthSyncs ==
    (/\ last_op.name = "process"
     /\ last_op.args[1] < prev_num_channels_
     /\ prev_num_channels_ <= kNumEngines)
    => /\ last_op.synced = last_op.args[1] .. (prev_num_channels_ - 1)
       /\ \A c \in last_op.args[1] .. (prev_num_channels_ - 1) :
             ui_settings[c] = ui_settings[0]

\* C3 witness: growth from one voice to all sixteen with the link flag set.
C3_Witness ==
    /\ last_op.name = "process"
    /\ last_op.args[1] = 1
    /\ prev_num_channels_ = kNumEngines
    /\ ui_settings[kNumEngines - 1].linked = 1

ProcessStep == last_op'.name = "process"

Grown == prev_num_channels_ .. (prev_num_channels_' - 1)

\* A step leaves the Settings, the DSP state and the stored brightness slots
\* of every voice at or above n as they were.
UntouchedFrom(n) ==
    /\ \A c \in Voices : c >= n => ui_settings'[c] = ui_settings[c] /\ dsp'[c] = dsp[c]
    /\ \A i \in Lights :
          \/ brightness_'[i] = brightness_[i]
          \/ \A c \in Voices : c >= n => brightness_'[i][c] = brightness_[i][c]

\* C4 as claimed: when the count grows back, a voice that was active before
\* (its DSP state has left the reset value) continues from its own state.
C4_RegrowKeepsState ==
    [][ProcessStep =>
        \A c \in Grown \cap Voices :
            dsp[c] # ResetDsp =>
                /\ ui_settings'[c] = ui_settings[c]
                /\ \E x \in Samples : dsp'[c] = EngineStep(dsp[c], x)]_vars

\* C4 amended: a cycle leaves every voice at or above its count untouched, so
\* a deactivated voice keeps its state while it is inactive; a cycle that grows
\* the count re-syncs each newly activated voice, which continues from the
\* state of voice 0.
C4_ShrinkKeepsRegrowSyncs ==
    [][ProcessStep =>
        /\ UntouchedFrom(prev_num_channels_')
        /\ \A c \in Grown \cap Voices :
              /\ ui_settings'[c] = ui_settings[0]
              /\ \E x \in Samples : dsp'[c] = EngineStep(dsp[0], x)]_vars

\* C4 witness: after growth from one voice to two, voice 1 still shows the
\* brightness it stored when its level was up, and its level is now the one of
\* voice 0.
C4_Witness ==
    /\ last_op.name = "process"
    /\ last_op.args[1] = 1
    /\ prev_num_channels_ = 2
    /\ brightness_[CH1_LIGHT_1_G][1] = DspMax
    /\ dsp[1] = ResetDsp

SetMax(S) == CHOOSE m \in S : \A x \in S : x <= m

ActiveMax(i) ==
    SetMax({brightness_[i][c] : c \in (0 .. (prev_num_channels_ - 1)) \cap Voices})

\* C6 as claimed: at the end of every cycle each indicator shows the maximum of
\* its stored intensities over the active voices.
C6_BrightnessIsMax ==
    last_op.name = "process" => \A i \in Lights : lights[i] = ActiveMax(i)

\* C6 amended: at the end of every cycle in which an active voice reported a
\* change of its visual state, each indicator shows the maximum of its stored
\* intensities over the active voices.
C6_BrightnessIsMaxWhenUpdated ==
    (last_op.name = "process" /\ last_op.changed # {})
    => \A i \in Lights : lights[i] = ActiveMax(i)

\* C6 witness: voice 1 at full intensity and voice 0 dark give full brightness.
C6_Witness ==
    /\ last_op.name = "process"
    /\ last_op.changed # {}
    /\ prev_num_channels_ = 2
    /\ brightness_[CH1_LIGHT_1_G][0] = 0
    /\ brightness_[CH1_LIGHT_1_G][1] = DspMax
    /\ lights[CH1_LIGHT_1_G] = DspMax

\* C5 as claimed: the active voice count a cycle uses lies in 1..16 whatever
\* counts the two inputs report, so the cycle touches no voice index outside
\* 0..15.
C5_CountClamped ==
    last_op.name = "process" =>
        /\ prev_num_channels_ \in 1 .. kNumEngines
        /\ out_channels \in 1 .. kNumEngines
        /\ ~fault

SixFields(s) ==
    <<s.function[0], s.function[1], s.alternate[0], s.alternate[1],
      s.monitor_mode, s.linked>>

\* C7: exporting the Settings of voice 0 with dataToJson and importing the
\* result with dataFromJson leaves all sixteen voices with the six fields that
\* voice 0 held before.
C7_RoundTrip ==
    [][last_op'.name = "dataFromJson" =>
        \A c \in Voices : SixFields(ui_settings'[c]) = SixFields(ui_settings[0])]_vars

\* C7 witness: a patch with two different channel modes, a meter choice and
\* the link flag has been saved and loaded.
C7_Witness ==
    /\ last_op.name = "dataFromJson"
    /\ SixFields(ui_settings[kNumEngines - 1]) =
          <<PROCESSOR_FUNCTION_LORENZ_GENERATOR, PROCESSOR_FUNCTION_FILTER_CONTROLLER,
            0, 1, MONITOR_MODE_OUTPUT, 1>>

Loaded(root_j, key) == IF key \in DOMAIN root_j THEN root_j[key] ELSE 0

\* C8: after dataFromJson of an object with any subset of the six keys, all
\* sixteen voices hold the loaded value in each present field and zero in each
\* absent field, whatever they held before; the empty object gives the default
\* Settings.
C8_MissingKeysDefault ==
    last_op.name = "dataFromJson" =>
        /\ \A c \in Voices :
              SixFields(ui_settings[c]) =
                  <<Loaded(last_op.args, "function1"), Loaded(last_op.args, "function2"),
                    Loaded(last_op.args, "alternate1"), Loaded(last_op.args, "alternate2"),
                    Loaded(last_op.args, "monitor_mode"), Loaded(last_op.args, "linked")>>
        /\ DOMAIN last_op.args = {} => \A c \in Voices : ui_settings[c] = ZeroSettings

\* C8 witness: a file with only two of the six keys has been loaded.
C8_Witness ==
    /\ last_op.name = "dataFromJson"
    /\ DOMAIN last_op.args = {"function2", "linked"}
    /\ SixFields(ui_settings[kNumEngines - 1]) = <<0, MaxJson, 0, 0, 0, 1>>

ModeIds == 0 .. (kNumChannelModes - 1)

ModePair(i) == <<kChannelModeTable[i].function, kChannelModeTable[i].alternate>>

\* C9: the ten (function, alternate) pairs of the channel mode table are
\* pairwise distinct, and after SetChannelMode(channel, i) the menu checks
\* entry i of that channel and no other.
C9_UniqueChannelMode ==
    /\ \A i, j \in ModeIds : ModePair(i) = ModePair(j) => i = j
    /\ last_op.name = "SetChannelMode" =>
          {i \in ModeIds : Checked(last_op.args[1], i)} = {last_op.args[2]}

\* C9 witness: channel 2 has been set to entry 8 and channel 1 has not.
C9_Witness ==
    /\ last_op.name = "SetChannelMode"
    /\ last_op.args = <<1, 8>>
    /\ Checked(1, 8)
    /\ ~Checked(0, 8)

ScenarioSettings(s, link) ==
    /\ s.function[0] = PROCESSOR_FUNCTION_ENVELOPE
    /\ s.alternate[0] = 0
    /\ s.monitor_mode = MONITOR_MODE_AUDIO_IN
    /\ s.linked = link

\* C10: from one active voice at Envelope, not alternate, AudioIn, not linked,
\* a ToggleLink sets linked on all sixteen voices; a following cycle with four
\* voices leaves voices 1..3 at Envelope, not alternate, AudioIn, linked; a
\* following SetChannelMode(0, Lorenz generator) makes all sixteen voices
\* report Lorenz generator, not alternate, on channel 1.
C10_Scenario ==
    [][/\ (/\ prev_num_channels_ = 1
           /\ ScenarioSettings(ui_settings[0], 0)
           /\ last_op'.name = "ToggleLink")
          => \A c \in Voices : ui_settings'[c].linked = 1
       /\ (/\ prev_num_channels_ = 1
           /\ ScenarioSettings(ui_settings[0], 1)
           /\ last_op'.name = "process"
           /\ prev_num_channels_' = 4)
          => \A c \in 1 .. 3 : ScenarioSettings(ui_settings'[c], 1)
       /\ (/\ prev_num_channels_ = 4
           /\ ScenarioSettings(ui_settings[0], 1)
           /\ last_op'.name = "SetChannelMode"
           /\ last_op'.args = <<0, 9>>)
          => \A c \in Voices :
                /\ ui_settings'[c].function[0] = PROCESSOR_FUNCTION_LORENZ_GENERATOR
                /\ ui_settings'[c].alternate[0] = 0]_vars

\* C10 witness: the end of the scenario, with four active voices and the
\* inactive last voice at Lorenz generator, AudioIn, linked.
C10_Witness ==
    /\ last_op.name = "SetChannelMode"
    /\ last_op.args = <<0, 9>>
    /\ prev_num_channels_ = 4
    /\ ui_settings[kNumEngines - 1].function[0] = PROCESSOR_FUNCTION_LORENZ_GENERATOR
    /\ ui_settings[kNumEngines - 1].function[1] = PROCESSOR_FUNCTION_ENVELOPE
    /\ ui_settings[kNumEngines - 1].alternate[0] = 0
    /\ ui_settings[kNumEngines - 1].monitor_mode = MONITOR_MODE_AUDIO_IN
    /\ ui_settings[kNumEngines - 1].linked = 1

\* C2 as claimed: the voices processed in one cycle have all read the same
\* Settings value, the complete old one or the complete new one.
C2_NoTornCycle == Cardinality(threads.audio.seen) <= 1

\* C11: the queries report the Settings of voice 0; ToggleLink negates
\* linked(), SetChannelMode(channel, id) makes function(channel) and
\* alternate(channel) those of table entry id, and SetMonitorMode(id) makes
\* monitor_mode() the mode of monitor table entry id.
C11_MutatorResults ==
    [][/\ \A ch \in Channels :
             /\ function(ch)' = ui_settings'[0].function[ch]
             /\ alternate(ch)' = ui_settings'[0].alternate[ch]
       /\ linked' = ui_settings'[0].linked
       /\ monitor_mode' = ui_settings'[0].monitor_mode
       /\ last_op'.name = "ToggleLink" =>
             /\ linked' \in {0, 1}
             /\ (linked' = 1) <=> (linked = 0)
       /\ last_op'.name = "SetChannelMode" =>
             \A ch \in Channels, id \in ModeIds :
                last_op'.args = <<ch, id>> =>
                   /\ function(ch)' = kChannelModeTable[id].function
                   /\ alternate(ch)' = kChannelModeTable[id].alternate
       /\ last_op'.name = "SetMonitorMode" =>
             monitor_mode' = kMonitorModeTable[last_op'.args[1]].mode]_vars

\* C11 witness: the link flag has been switched off again by a second
\* ToggleLink, with the meter on Out and channel 2 on the Lorenz generator.
C11_Witness ==
    /\ last_op.name = "ToggleLink"
    /\ linked = 0
    /\ monitor_mode = MONITOR_MODE_OUTPUT
    /\ function(1) = PROCESSOR_FUNCTION_LORENZ_GENERATOR

OtherChannel(ch) == 1 - ch

\* C12: each mutator builds the new Settings from voice 0's and changes only
\* its own fields: ToggleLink keeps function, alternate and monitor_mode;
\* SetChannelMode keeps the other channel's function and alternate,
\* monitor_mode and linked; SetMonitorMode keeps function, alternate and
\* linked; none of them changes the previous count or the brightness table.
C12_MutatorFrame ==
    [][/\ last_op'.name = "ToggleLink" =>
             \A c \in Voices :
                /\ ui_settings'[c].function = ui_settings[0].function
                /\ ui_settings'[c].alternate = ui_settings[0].alternate
                /\ ui_settings'[c].monitor_mode = ui_settings[0].monitor_mode
       /\ last_op'.name = "SetChannelMode" =>
             \A c \in Voices :
                /\ ui_settings'[c].function[OtherChannel(last_op'.args[1])] =
                      ui_settings[0].function[OtherChannel(last_op'.args[1])]
                /\ ui_settings'[c].alternate[OtherChannel(last_op'.args[1])] =
                      ui_settings[0].alternate[OtherChannel(last_op'.args[1])]
                /\ ui_settings'[c].monitor_mode = ui_settings[0].monitor_mode
                /\ ui_settings'[c].linked = ui_settings[0].linked
       /\ last_op'.name = "SetMonitorMode" =>
             \A c \in Voices :
                /\ ui_settings'[c].function = ui_settings[0].function
                /\ ui_settings'[c].alternate = ui_settings[0].alternate
                /\ ui_settings'[c].linked = ui_settings[0].linked
       /\ last_op'.name \in {"ToggleLink", "SetChannelMode", "SetMonitorMode"} =>
             /\ prev_num_channels_' = prev_num_channels_
             /\ brightness_' = brightness_]_vars

\* C12 witness: the meter has been set with two voices active, and the channel
\* modes and the link flag chosen before are still there.
C12_Witness ==
    /\ last_op.name = "SetMonitorMode"
    /\ last_op.args = <<MONITOR_MODE_AUDIO_IN>>
    /\ prev_num_channels_ = 2
    /\ SixFields(ui_settings[kNumEngines - 1]) =
          <<PROCESSOR_FUNCTION_FILTER_CONTROLLER, PROCESSOR_FUNCTION_VACTROL,
            1, 0, MONITOR_MODE_AUDIO_IN, 1>>

\* C13: a cycle in which no active voice reports a change of its visual state
\* leaves all sixteen lights and the whole brightness table as they were, even
\* if the active count changed.
C13_HoldLastValue ==
    [][(last_op'.name = "process" /\ last_op'.changed = {})
        => /\ lights' = lights
           /\ brightness_' = brightness_]_vars

\* C13 witness: after a shrink from two voices to one with no change reported,
\* the light still shows the level of voice 1 although voice 0 is dark.
C13_Witness ==
    /\ last_op.name = "process"
    /\ last_op.changed = {}
    /\ last_op.args = <<2, 1>>
    /\ lights[CH1_LIGHT_1_G] = DspMax
    /\ brightness_[CH1_LIGHT_1_G][0] = 0

FirstVoices(n) == [k \in 1 .. n |-> k - 1]

\* C14: a cycle uses one count n throughout: the voice loop handles exactly
\* the voices 0..n-1 (processing them and writing their output samples), both
\* outputs report n channels, the previous count becomes n, and a brightness
\* reduction in the cycle ranges over the voices 0..n-1.
C14_OneCountPerCycle ==
    (last_op.name = "process" /\ ~fault) =>
        /\ last_op.order = FirstVoices(last_op.args[2])
        /\ out_channels = last_op.args[2]
        /\ prev_num_channels_ = last_op.args[2]
        /\ last_op.changed # {} =>
              \A i \in Lights :
                 lights[i] = SetMax({brightness_[i][c] : c \in 0 .. (last_op.args[2] - 1)})

\* C14 witness: a one-voice cycle with a change reported, while the inactive
\* voice 1 still stores full intensity: the light follows voice 0 alone.
C14_Witness ==
    /\ last_op.name = "process"
    /\ last_op.args = <<2, 1>>
    /\ last_op.order = <<0>>
    /\ last_op.changed = {0}
    /\ out_channels = 1
    /\ brightness_[CH1_LIGHT_1_G][1] = DspMax
    /\ lights[CH1_LIGHT_1_G] = 0

\* C15: the previous count is 1 after construction and after onReset, equals
\* the count of the cycle after every process(), whether the count grew, shrank
\* or stayed, and is changed by no other operation.
C15_PreviousCount ==
    /\ [](last_op.name \in {"Streams", "onReset"} => prev_num_channels_ = 1)
    /\ [][/\ last_op'.name = "process" =>
                /\ prev_num_channels_' = last_op'.args[2]
                /\ prev_num_channels_' = out_channels'
          /\ last_op'.name \notin {"process", "onReset"} =>
                prev_num_channels_' = prev_num_channels_]_vars

\* C15 witness: a cycle has shrunk the count from two to one.
C15_Witness ==
    /\ last_op.name = "process"
    /\ last_op.args = <<2, 1>>
    /\ prev_num_channels_ = 1
    /\ linked = 1

\* C16: a cycle whose count is at most the previous count syncs no voice and
\* leaves the Settings and the stored brightness slots of every voice at or
\* above its count as they were.
C16_NoGrowthNoSync ==
    [][(last_op'.name = "process" /\ last_op'.args[2] <= last_op'.args[1])
        => /\ last_op'.synced = {}
           /\ \A c \in Voices :
                 c >= last_op'.args[2] => ui_settings'[c] = ui_settings[c]
           /\ \A i \in Lights :
                 \/ brightness_'[i] = brightness_[i]
                 \/ \A c \in Voices :
                       c >= last_op'.args[2] => brightness_'[i][c] = brightness_[i][c]]_vars

\* C16 witness: the count has shrunk from two to one with a change reported by
\* voice 0, and voice 1 keeps its level and its stored intensity.
C16_Witness ==
    /\ last_op.name = "process"
    /\ last_op.args = <<2, 1>>
    /\ last_op.synced = {}
    /\ last_op.changed = {0}
    /\ brightness_[CH2_LIGHT_4_R][1] = DspMax
    /\ brightness_[CH2_LIGHT_4_R][0] = 0
    /\ dsp[1] = DspMax

\* C17: every cycle runs in one order: the new voices are synced first, then
\* the voices 0..n-1 are processed once each in ascending order, then the
\* output channel counts are set, and a brightness reduction uses the table as
\* it is after the last voice.
C17_CycleOrder ==
    [][last_op'.name = "process" =>
        /\ last_op'.order = FirstVoices(last_op'.args[2])
        /\ \A c \in last_op'.synced :
              /\ ui_settings'[c] = ui_settings[0]
              /\ \E x \in Samples : dsp'[c] = EngineStep(dsp[0], x)
        /\ out_channels' = last_op'.args[2]
        /\ last_op'.changed # {} =>
              \A i \in Lights :
                 lights'[i] =
                    SetMax({brightness_'[i][c] : c \in 0 .. (last_op'.args[2] - 1)})]_vars

\* C17 witness: in a cycle that grew from one voice to two, voice 1 was synced
\* from the resting voice 0 and then driven up by its own input, and the light
\* shows the intensity voice 1, the last voice, stored in this cycle.
C17_Witness ==
    /\ last_op.name = "process"
    /\ last_op.args = <<1, 2>>
    /\ last_op.order = <<0, 1>>
    /\ last_op.synced = {1}
    /\ last_op.changed = {1}
    /\ dsp[0] = ResetDsp
    /\ dsp[1] = DspMax
    /\ out_channels = 2
    /\ lights[CH2_LIGHT_4_R] = DspMax

\* C18: after construction and after onReset all sixteen voices are reset and
\* hold the same default Settings, every entry of the brightness table is
\* zero and the previous count is 1.
C18_ResetState ==
    last_op.name \in {"Streams", "onReset"} =>
        /\ \A c \in Voices : ui_settings[c] = ResetSettings /\ dsp[c] = ResetDsp
        /\ \A i \in Lights : \A c \in Voices : brightness_[i][c] = 0
        /\ prev_num_channels_ = 1

\* C18 witness: a reset after a two-voice cycle that had lit a light.
C18_Witness ==
    /\ last_op.name = "onReset"
    /\ out_channels = 2
    /\ lights[CH1_LIGHT_1_G] = DspMax

\* C19: every voice above voice 0 that a cycle processes was either synced
\* from voice 0 at the start of this cycle, before the voice loop, or was
\* already active in the cycle before (where the same held); after a reset the
\* previous count is 1, so no voice above voice 0 counts as active.
C19_SyncedBeforeProcessed ==
    [][/\ last_op'.name = "process" =>
            \A k \in 1 .. Len(last_op'.order) :
                last_op'.order[k] >= 1 =>
                    \/ last_op'.order[k] < prev_num_channels_
                    \/ /\ last_op'.order[k] \in last_op'.synced
                       /\ ui_settings'[last_op'.order[k]] = ui_settings[0]
                       /\ \E x \in Samples :
                             dsp'[last_op'.order[k]] = EngineStep(dsp[0], x)
       /\ last_op'.name = "onReset" => prev_num_channels_' = 1]_vars

\* C19 witness: after a reset a cycle grew to MaxVoices voices at once and
\* processed each of them after syncing it.
C19_Witness ==
    /\ last_op.name = "process"
    /\ last_op.args = <<1, MaxVoices>>
    /\ last_op.synced = 1 .. (MaxVoices - 1)
    /\ Len(last_op.order) = MaxVoices
    /\ dsp[MaxVoices - 1] = DspMax
    /\ dsp[0] = ResetDsp

\* The intensity an engine at level d produces for light i when it reports a
\* change.
LedOf(d, i) == IF i \in {CH1_LIGHT_1_G, CH2_LIGHT_4_R} THEN d ELSE 0

\* C20: a cycle overwrites the brightness slots of a voice only if that voice
\* reported a change in its own process call, and then with the intensities
\* that voice produced; a voice that reports no change keeps its slots even
\* when an earlier voice of the cycle left a change in the reused frame.
C20_OwnSlotsOnly ==
    [][last_op'.name = "process" =>
        \A i \in Lights :
           \/ brightness_'[i] = brightness_[i]
           \/ \A c \in Voices :
                 IF c \in last_op'.changed
                 THEN brightness_'[i][c] = LedOf(dsp'[c], i)
                 ELSE brightness_'[i][c] = brightness_[i][c]]_vars

\* C20 witness: voice 0 has reported a change at full level, voice 1 after it
\* none, and the slot of voice 1 is still dark.
C20_Witness ==
    /\ last_op.name = "process"
    /\ last_op.order = <<0, 1>>
    /\ last_op.changed = {0}
    /\ brightness_[CH1_LIGHT_1_G][0] = DspMax
    /\ brightness_[CH1_LIGHT_1_G][1] = 0
    /\ dsp[1] = DspMax

\* C21: two ToggleLink calls in a row, the first from a state in which all
\* sixteen voices hold the same Settings, leave the Settings of all sixteen
\* voices exactly as they were before the first call.
C21_ToggleLinkInvolution ==
    [][(/\ last_op.name = "ToggleLink"
        /\ last_op'.name = "ToggleLink"
        /\ \A c \in Voices : last_op.args[1][c] = last_op.args[1][0])
       => ui_settings' = last_op.args[1]]_vars

\* C21 witness: the second of two ToggleLink calls in a row has returned, with
\* two voices active, channel 1 on the Lorenz generator, the meter on Out and
\* the link flag set again.
C21_Witness ==
    /\ last_op.name = "ToggleLink"
    /\ last_op.args[2]
    /\ prev_num_channels_ = 2
    /\ SixFields(ui_settings[kNumEngines - 1]) =
          <<PROCESSOR_FUNCTION_LORENZ_GENERATOR, PROCESSOR_FUNCTION_ENVELOPE,
            0, 0, MONITOR_MODE_OUTPUT, 1>>

====
